---- MODULE Spec2Model ----
(***************************************************************************)
(* parsewinelog (src/main.cpp): one driver thread reads a log line by      *)
(* line; Call lines are stored in the worker threads of a ThreadPool, Ret  *)
(* lines are broadcast to the workers, which each erase the first stored   *)
(* Call the Ret matches; at end of input the pool is drained to the output.*)
(*                                                                         *)
(* Strings are sequences of one-character strings.  size_t values are kept *)
(* modulo 2^64 by their representative nearest to 0: std::string::npos,    *)
(* size_t(-1), is -1, npos + 5 is 4, and 0 - 6 is -6 (2^64 - 6).  Every    *)
(* size_t the program computes is within a line's length of 0 or of 2^64,  *)
(* so + and - on representatives are + and - modulo 2^64; the unsigned     *)
(* order is ULess.                                                         *)
(***************************************************************************)
EXTENDS Integers, Sequences, FiniteSets, TLC

\* ------------------------------------------------------------ bounds
MaxInput == 3
MaxWorkers == 2
MaxCallPieces == 4
MaxRetPieces == 2
MaxHardware == 4
MaxPool == 4
MaxCalls == 4

\* ------------------------------------------------------------ strings
npos == 0 - 1

ULess(a, b) ==
    IF (a >= 0) = (b >= 0) THEN a < b ELSE a >= 0

UMin(a, b) == IF ULess(b, a) THEN b ELSE a

\* s.find(t): the first position (from 0) where t occurs in s, npos if none.
\* The empty string is found at 0.
Find(s, t) ==
    LET hits == { p \in 0..(Len(s) - Len(t)) : SubSeq(s, p + 1, p + Len(t)) = t }
    IN  IF hits = {} THEN npos
        ELSE CHOOSE p \in hits : \A q \in hits : p <= q

\* s.find_first_of(c)
FindFirstOf(s, c) == Find(s, <<c>>)

\* s.substr(pos, n); the caller checks SubstrThrows first (pos > size()
\* throws std::out_of_range).
SubstrThrows(s, pos) == ULess(Len(s), pos)

Substr(s, pos, n) ==
    LET rlen == UMin(n, Len(s) - pos)
    IN  SubSeq(s, pos + 1, pos + rlen)

\* the literals of the program
StrCallSp == <<"C", "a", "l", "l", " ">>
StrCall   == <<"C", "a", "l", "l">>
StrRet    == <<"R", "e", "t">>
StrRetEq  == <<"r", "e", "t", "=">>

\* ------------------------------------------------------------ Parser
\* Parser::operator().  ParserThrows: the first substr call throws
\* std::out_of_range (callPosBegin > Call.size()).
ParserThrows(Call) == SubstrThrows(Call, Find(Call, StrCallSp) + 5)

funcCall(Call) ==
    LET callPosBegin == Find(Call, StrCallSp) + 5
        callPosEnd   == FindFirstOf(Call, "(") - callPosBegin
    IN  Substr(Call, callPosBegin, callPosEnd)

\* Variant with a plausible slip: the return address is never compared.
ParserCallNameOnly(Call, Ret) == Find(Ret, funcCall(Call)) # npos

ParserCall(Call, Ret) ==
    LET addrPosBegin == Find(Call, StrRetEq)
    IN  IF Find(Ret, funcCall(Call)) = npos THEN FALSE
        ELSE IF addrPosBegin = npos THEN TRUE
        ELSE IF Find(Ret, Substr(Call, addrPosBegin + 4, npos)) = npos THEN FALSE
        ELSE TRUE

\* ------------------------------------------------------------ the log
\* The lines an input file is made of.  A file is a sequence of indices
\* into Lines, drawn line by line as getline returns them; Text(0) is the
\* empty string a fresh std::string holds.
Lines == <<
    <<"C", "a", "l", "l", " ", "f", "(">>,
    <<"R", "e", "t", " ", "f">>,
    <<"l", "o", "g">>,
    <<"C", "a", "l", "l", " ", "g", "(", "r", "e", "t", "=", "A">>,
    <<"R", "e", "t", " ", "g", " ", "A">>,
    <<"C", "a", "l", "l", " ", "h", "(", "R", "e", "t">>,
    <<"C", "a", "l", "l", " ", "(">>,
    <<"C", "a", "l", "l", " ", "f">> >>

LineIds == 1..Len(Lines)

Text(l) == IF l = 0 THEN <<>> ELSE Lines[l]

\* main's classification of a line: "Call" is tested before "Ret".
IsCallText(s) == Find(s, StrCall) # npos

\* Variant with a plausible slip: "Ret" is tested on its own, not in the
\* else branch of the test for "Call".
IsRetTextUnordered(s) == Find(s, StrRet) # npos

IsRetText(s) == ~IsCallText(s) /\ Find(s, StrRet) # npos

IsCall(l) == IsCallText(Text(l))
IsRet(l) == IsRetText(Text(l))
IsOther(l) == ~IsCall(l) /\ ~IsRet(l)

VARIABLES
    functor,      \* a Parser object on its own: its Call, an argument, the result
    hardware,     \* what std::thread::hardware_concurrency() returned
    logs,         \* the logs the run may be given: line k is one of logs[k]
    input,        \* the lines getline has returned so far (indices into Lines)
    out,          \* outFile: records [line, src, from]
    numThreads,   \* ThreadPool(): the number of Thread objects created
    pool,         \* ThreadPool::pool: the live workers, in order
    running,      \* Thread::running
    currentWork,  \* Thread::currentWork: position in input of the copied line, 0 = ""
    parseVector,  \* Thread::parseVector: positions in input of the stored Calls
    wpc,          \* where each worker thread is in Thread::run
    mutex,        \* the global mutex: 0 free, else the worker holding it
    vectorMutex,  \* Thread::vectorMutex: TRUE while the worker thread holds it
    dpc,          \* where the driver (main) is
    smallest,     \* std::min_element: index in pool of the smallest so far
    first,        \* std::min_element: index in pool of the next to compare
    i,            \* operator<<(ThreadPool): the walk's index (from 0)
    linesLeft,    \* the count main prints as "Lines left"
    matched,      \* history: the erasures done by worker scans
    enqSnap,      \* history: parseVector when ThreadPool::enqueue was called
    scanned       \* history: the workers that scanned since the last process(),
                  \* kept while the input is read

vars == <<functor, hardware, logs, input, out, numThreads, pool, running,
          currentWork, parseVector, wpc, mutex, vectorMutex, dpc, smallest,
          first, i, linesLeft, matched, enqSnap, scanned>>

\* The Thread objects constructed so far (all of them once ThreadPool's
\* constructor has returned).
Workers == DOMAIN wpc

size(w) == Len(parseVector[w])

CallText(k) == Text(input[k])

pos == Len(input)

DrainStarted == dpc \in {"drain", "join", "output", "done", "undefined"}

TypeOK ==
    /\ pos <= Len(logs)
    /\ \A k \in 1..pos : input[k] \in logs[k]
    /\ \A w \in Workers : wpc[w] \in {"check", "lock", "blocked", "woken", "scan", "done"}
    /\ dpc \in {"construct", "read", "min_element", "addCall", "drain", "join",
                "output", "done", "undefined"}
    /\ mutex \in {0} \cup Workers

\* ------------------------------------------------------------ ThreadPool()
\* auto numThreads = hardware_concurrency() - 1; if (numThreads <= 0)
\* numThreads = 1.  numThreads is an unsigned int, kept modulo 2^32 as the
\* size_t values are modulo 2^64: 0 - 1 is 2^32 - 1, written -1, and the
\* comparison with 0 is the unsigned one.
NumThreadsOf(h) ==
    LET n == h - 1
    IN  IF ~ULess(0, n) THEN 1 ELSE n

\* ------------------------------------------------------------ Init
\* After ThreadPool's constructor: numThreads workers, every thread started
\* and about to test `running` for the first time.
NoFunctor == [Call |-> <<>>, Ret |-> <<>>, done |-> FALSE, result |-> FALSE]

InitPool(family, counts) ==
    /\ logs = family
    /\ numThreads \in counts
    /\ hardware = numThreads + 1
    /\ input = <<>>
    /\ out = <<>>
    /\ pool = [k \in 1..numThreads |-> k]
    /\ running = [w \in 1..numThreads |-> TRUE]
    /\ currentWork = [w \in 1..numThreads |-> 0]
    /\ parseVector = [w \in 1..numThreads |-> <<>>]
    /\ wpc = [w \in 1..numThreads |-> "check"]
    /\ mutex = 0
    /\ vectorMutex = [w \in 1..numThreads |-> FALSE]
    /\ dpc = "read"
    /\ smallest = 1
    /\ first = 1
    /\ i = 0
    /\ linesLeft = 0
    /\ matched = {}
    /\ enqSnap = [w \in 1..numThreads |-> <<>>]
    /\ scanned = {}

InitWith(family, counts) == functor = NoFunctor /\ InitPool(family, counts)

\* Every log of at most MaxInput lines.
AnyLog == [k \in 1..MaxInput |-> LineIds]

\* One longer log (and its prefixes): six Calls, alternately of f and of g,
\* three Rets of f, a line that is neither, one more Call.
LongLog == << {1}, {4}, {1}, {4}, {1}, {4}, {2}, {2}, {2}, {3}, {1} >>

\* Every log of at most MaxInput lines without return addresses.
PlainLog == [k \in 1..MaxInput |-> 1..3]

Init == InitWith(AnyLog, 1..MaxWorkers)

InitPlain ==
    \/ InitWith(PlainLog, 1..MaxWorkers)
    \/ InitWith(LongLog, {2})

InitLive == InitWith(PlainLog, 1..MaxWorkers)

\* Every log of at most MaxInput lines made of a Ret, a line that is neither
\* and a Call line that contains "Ret" too, where the last line may also be
\* a Call line without "Ret".
DispatchLog == [k \in 1..MaxInput |-> IF k < MaxInput THEN {2, 3, 6} ELSE {1, 2, 3, 6}]

InitDispatch == InitWith(DispatchLog, 1..MaxWorkers)

\* Every log of at most MaxInput lines made of a Call of f, a Call of g with
\* a return address and the Ret of g with that address, where the last line
\* may also be one that is neither.
ScanLog == [k \in 1..MaxInput |-> IF k < MaxInput THEN {1, 4, 5} ELSE {1, 3, 4, 5}]

InitScan == InitWith(ScanLog, 1..MaxWorkers)

\* Every log of at most MaxCalls lines made of Calls of f and lines that are
\* neither, where only the last line may be a Ret.
OrderLog == [k \in 1..MaxCalls |-> IF k < MaxCalls THEN {1, 3} ELSE {1, 2, 3}]

InitOrder == InitWith(OrderLog, 1..MaxWorkers)

\* ------------------------------------------------------------ helpers
Remove(s, k) == SubSeq(s, 1, k - 1) \o SubSeq(s, k + 1, Len(s))

\* processCondition.notify_all(): every thread blocked in wait is released.
NotifyAll(pcs) ==
    [w \in DOMAIN pcs |-> IF pcs[w] = "blocked" THEN "woken" ELSE pcs[w]]

\* The text of the line at position k of the input; position 0 is "".
TextAt(k) == IF k = 0 THEN <<>> ELSE Text(input[k])

\* Variant with a plausible slip: the loop has no break, so that the last
\* entry that matches is the one taken.
LastMatch(vec, ret) ==
    LET hits == { k \in 1..Len(vec) : ParserCall(CallText(vec[k]), ret) }
    IN  IF hits = {} THEN 0 ELSE CHOOSE k \in hits : \A j \in hits : j <= k

\* The loop of Thread::run over parseVector: the index (from 1) of the first
\* entry whose functor accepts ret, 0 when there is none.
FirstMatch(vec, ret) ==
    LET hits == { k \in 1..Len(vec) : ParserCall(CallText(vec[k]), ret) }
    IN  IF hits = {} THEN 0 ELSE CHOOSE k \in hits : \A j \in hits : k <= j

\* ------------------------------------------------------------ Thread::run
\* while (running)
CheckRunning(w) ==
    /\ wpc[w] = "check"
    /\ wpc' = [wpc EXCEPT ![w] = IF running[w] THEN "lock" ELSE "done"]
    /\ UNCHANGED <<functor, hardware, logs, input, out, numThreads, pool, running, currentWork,
                   parseVector, mutex, vectorMutex, dpc, smallest, first, i,
                   linesLeft, matched, enqSnap, scanned>>

\* unique_lock lock(mutex); processCondition.wait(lock): the mutex is taken
\* and released again as the thread blocks.
Wait(w) ==
    /\ wpc[w] = "lock"
    /\ mutex = 0
    /\ wpc' = [wpc EXCEPT ![w] = "blocked"]
    /\ UNCHANGED <<functor, hardware, logs, input, out, numThreads, pool, running, currentWork,
                   parseVector, mutex, vectorMutex, dpc, smallest, first, i,
                   linesLeft, matched, enqSnap, scanned>>

\* wait(lock) has no predicate: it may return without any notify.
SpuriousWake(w) ==
    /\ wpc[w] = "blocked"
    /\ wpc' = [wpc EXCEPT ![w] = "woken"]
    /\ UNCHANGED <<functor, hardware, logs, input, out, numThreads, pool, running, currentWork,
                   parseVector, mutex, vectorMutex, dpc, smallest, first, i,
                   linesLeft, matched, enqSnap, scanned>>

\* wait returns holding the mutex again; lock_guard lk(vectorMutex).
Reacquire(w) ==
    /\ wpc[w] = "woken"
    /\ mutex = 0
    /\ ~vectorMutex[w]
    /\ mutex' = w
    /\ vectorMutex' = [vectorMutex EXCEPT ![w] = TRUE]
    /\ wpc' = [wpc EXCEPT ![w] = "scan"]
    /\ UNCHANGED <<functor, hardware, logs, input, out, numThreads, pool, running, currentWork,
                   parseVector, dpc, smallest, first, i, linesLeft, matched,
                   enqSnap, scanned>>

\* the for loop: erase the first entry that matches currentWork, then leave
\* the block (both locks are released) and test `running` again.
ScanErase(vec, ret) ==
    IF FirstMatch(vec, ret) = 0 THEN vec ELSE Remove(vec, FirstMatch(vec, ret))

Scan(w) ==
    LET ret == TextAt(currentWork[w])
        k   == FirstMatch(parseVector[w], ret)
    IN  /\ wpc[w] = "scan"
        /\ parseVector' = [parseVector EXCEPT ![w] = ScanErase(@, ret)]
        /\ matched' = IF k = 0 THEN matched
                      ELSE matched \cup {[call |-> parseVector[w][k],
                                          ret |-> currentWork[w],
                                          worker |-> w,
                                          late |-> DrainStarted]}
        /\ scanned' = IF DrainStarted THEN scanned ELSE scanned \cup {w}
        /\ mutex' = 0
        /\ vectorMutex' = [vectorMutex EXCEPT ![w] = FALSE]
        /\ wpc' = [wpc EXCEPT ![w] = "check"]
        /\ UNCHANGED <<functor, hardware, logs, input, out, numThreads, pool, running, currentWork,
                       dpc, smallest, first, i, linesLeft, enqSnap>>

\* ------------------------------------------------------------ main's loop
\* getline returned a line that contains "Call": ThreadPool::enqueue starts,
\* std::min_element begins with the first thread as the smallest.
ReadCall ==
    /\ dpc = "read"
    /\ pos < Len(logs)
    /\ \E l \in logs[pos + 1] : IsCall(l) /\ input' = Append(input, l)
    /\ smallest' = 1
    /\ first' = 2
    /\ enqSnap' = parseVector
    /\ dpc' = IF Len(pool) = 1 THEN "addCall" ELSE "min_element"
    /\ UNCHANGED <<functor, hardware, logs, out, numThreads, pool, running, currentWork,
                   parseVector, wpc, mutex, vectorMutex, i, linesLeft,
                   matched, scanned>>

\* one turn of std::min_element: comp(*first, *smallest) reads both sizes
\* (Thread::size takes no lock).
\* Variant with a plausible slip: <= for <, among equals the last is taken.
CompLeq(a, b) == size(a) <= size(b)

\* Variant with a plausible slip: the comparison reversed, the busiest thread
\* is taken.
CompReversed(a, b) == size(b) < size(a)

Comp(a, b) == size(a) < size(b)

MinElementStep ==
    /\ dpc = "min_element"
    /\ smallest' = IF Comp(pool[first], pool[smallest]) THEN first ELSE smallest
    /\ first' = first + 1
    /\ dpc' = IF first + 1 > Len(pool) THEN "addCall" ELSE "min_element"
    /\ UNCHANGED <<functor, hardware, logs, input, out, numThreads, pool, running, currentWork,
                   parseVector, wpc, mutex, vectorMutex, i, linesLeft,
                   matched, enqSnap, scanned>>

\* Thread::addCall on *next: push_back under the thread's vectorMutex;
\* enqueue returns and its locals are gone.
AddCall ==
    /\ dpc = "addCall"
    /\ ~vectorMutex[pool[smallest]]
    /\ parseVector' = [parseVector EXCEPT ![pool[smallest]] = Append(@, pos)]
    /\ smallest' = 1
    /\ first' = 1
    /\ enqSnap' = [w \in Workers |-> <<>>]
    /\ dpc' = "read"
    /\ UNCHANGED <<functor, hardware, logs, input, out, numThreads, pool, running, currentWork,
                   wpc, mutex, vectorMutex, i, linesLeft, matched, scanned>>

\* Variant with a plausible slip: process() without its lock_guard.
ProcessNoLock ==
    /\ dpc = "read"
    /\ pos < Len(logs)
    /\ \E l \in logs[pos + 1] : IsRet(l) /\ input' = Append(input, l)
    /\ currentWork' = [w \in Workers |->
                          IF \E k \in 1..Len(pool) : pool[k] = w
                          THEN pos + 1 ELSE currentWork[w]]
    /\ wpc' = NotifyAll(wpc)
    /\ scanned' = {}
    /\ UNCHANGED <<functor, hardware, logs, out, numThreads, pool, running,
                   parseVector, mutex, vectorMutex, dpc, smallest, first, i,
                   linesLeft, matched, enqSnap>>

\* getline returned a line with "Ret" and no "Call": ThreadPool::process,
\* under the global mutex: copy the line into every thread, notify_all.
Process ==
    /\ dpc = "read"
    /\ pos < Len(logs)
    /\ mutex = 0
    /\ \E l \in logs[pos + 1] : IsRet(l) /\ input' = Append(input, l)
    /\ currentWork' = [w \in Workers |->
                          IF \E k \in 1..Len(pool) : pool[k] = w
                          THEN pos + 1 ELSE currentWork[w]]
    /\ wpc' = NotifyAll(wpc)
    /\ scanned' = {}
    /\ UNCHANGED <<functor, hardware, logs, out, numThreads, pool, running, parseVector, mutex,
                   vectorMutex, dpc, smallest, first, i, linesLeft, matched,
                   enqSnap>>

\* Variant with a plausible slip: the line is written and the workers are
\* released as for a Ret.
ReadOtherNotify ==
    /\ dpc = "read"
    /\ pos < Len(logs)
    /\ \E l \in logs[pos + 1] :
          /\ IsOther(l)
          /\ input' = Append(input, l)
          /\ out' = Append(out, [line |-> l, src |-> pos + 1, from |-> "read"])
    /\ wpc' = NotifyAll(wpc)
    /\ UNCHANGED <<functor, hardware, logs, numThreads, pool, running, currentWork,
                   parseVector, mutex, vectorMutex, dpc, smallest, first, i,
                   linesLeft, matched, enqSnap, scanned>>

\* any other line goes to the output file.
ReadOther ==
    /\ dpc = "read"
    /\ pos < Len(logs)
    /\ \E l \in logs[pos + 1] :
          /\ IsOther(l)
          /\ input' = Append(input, l)
          /\ out' = Append(out, [line |-> l, src |-> pos + 1, from |-> "read"])
    /\ UNCHANGED <<functor, hardware, logs, numThreads, pool, running, currentWork, parseVector,
                   wpc, mutex, vectorMutex, dpc, smallest, first, i, linesLeft,
                   matched, enqSnap, scanned>>

\* ------------------------------------------------------------ end of input
RECURSIVE SumSizes(_, _)
SumSizes(p, k) == IF k = 0 THEN 0 ELSE size(p[k]) + SumSizes(p, k - 1)

\* ThreadPool::size
PoolSize == SumSizes(pool, Len(pool))

\* getline fails: "Lines left" is printed, then outFile << workerPool starts.
EndOfInput ==
    /\ dpc = "read"
    /\ linesLeft' = PoolSize
    /\ i' = 0
    /\ dpc' = "drain"
    /\ scanned' = {}
    /\ UNCHANGED <<functor, hardware, logs, input, out, numThreads, pool, running, currentWork,
                   parseVector, wpc, mutex, vectorMutex, smallest, first,
                   matched, enqSnap>>

\* while (!tp.pool.empty()) ends.
DrainDone ==
    /\ dpc = "drain"
    /\ pool = <<>>
    /\ dpc' = "done"
    /\ UNCHANGED <<functor, hardware, logs, input, out, numThreads, pool, running, currentWork,
                   parseVector, wpc, mutex, vectorMutex, smallest, first, i,
                   linesLeft, matched, enqSnap, scanned>>

\* pool[i]->size() == 0: killThread(i) calls stop() and notify_all().
KillThread ==
    /\ dpc = "drain"
    /\ pool # <<>>
    /\ size(pool[i + 1]) = 0
    /\ running' = [running EXCEPT ![pool[i + 1]] = FALSE]
    /\ wpc' = NotifyAll(wpc)
    /\ dpc' = "join"
    /\ UNCHANGED <<functor, hardware, logs, input, out, numThreads, pool, currentWork, parseVector,
                   mutex, vectorMutex, smallest, first, i, linesLeft, matched,
                   enqSnap, scanned>>

\* killThread: pool.erase destroys the Thread, whose destructor joins its
\* thread; then the index of the next thread is returned.
NextIndex(k, n) == IF k < n THEN k ELSE 0

Join ==
    /\ dpc = "join"
    /\ wpc[pool[i + 1]] = "done"
    /\ pool' = Remove(pool, i + 1)
    /\ i' = NextIndex(i, Len(pool) - 1)
    /\ dpc' = "drain"
    /\ UNCHANGED <<functor, hardware, logs, input, out, numThreads, running, currentWork,
                   parseVector, wpc, mutex, vectorMutex, smallest, first,
                   linesLeft, matched, enqSnap, scanned>>

\* pool[i]->size() != 0: the driver goes on to os << *(tp.pool[i]).
DrainSelect ==
    /\ dpc = "drain"
    /\ pool # <<>>
    /\ size(pool[i + 1]) # 0
    /\ dpc' = "output"
    /\ UNCHANGED <<functor, hardware, logs, input, out, numThreads, pool, running, currentWork,
                   parseVector, wpc, mutex, vectorMutex, smallest, first, i,
                   linesLeft, matched, enqSnap, scanned>>

\* Variant with a plausible slip: the walk does not move on after a write,
\* so a worker's list is written whole before the next worker's.
OutputStay ==
    LET w == pool[i + 1]
    IN  /\ dpc = "output"
        /\ ~vectorMutex[w]
        /\ parseVector[w] # <<>>
        /\ out' = Append(out, [line |-> input[Head(parseVector[w])],
                               src |-> Head(parseVector[w]), from |-> "drain"])
        /\ parseVector' = [parseVector EXCEPT ![w] = Tail(@)]
        /\ i' = i
        /\ dpc' = "drain"
        /\ UNCHANGED <<functor, hardware, logs, input, numThreads, pool, running,
                       currentWork, wpc, mutex, vectorMutex, smallest, first,
                       linesLeft, matched, enqSnap, scanned>>

\* operator<<(ostream&, Thread&) under vectorMutex: write parseVector[0],
\* erase it; then i = (i + 1) % pool.size().
Output ==
    LET w == pool[i + 1]
    IN  /\ dpc = "output"
        /\ ~vectorMutex[w]
        /\ parseVector[w] # <<>>
        /\ out' = Append(out, [line |-> input[Head(parseVector[w])],
                               src |-> Head(parseVector[w]), from |-> "drain"])
        /\ parseVector' = [parseVector EXCEPT ![w] = Tail(@)]
        /\ i' = (i + 1) % Len(pool)
        /\ dpc' = "drain"
        /\ UNCHANGED <<functor, hardware, logs, input, numThreads, pool, running, currentWork, wpc,
                       mutex, vectorMutex, smallest, first, linesLeft, matched,
                       enqSnap, scanned>>

\* The same on an empty vector (a scan emptied it after the size() test):
\* parseVector[0] and erase(begin()) are undefined.  The read returns what
\* the freed slot holds, the text of an entry this worker's scans erased or
\* anything else (line 0), or the process dies before writing; after the
\* erase nothing is known of the program.
OutputEmpty ==
    LET w == pool[i + 1]
        stale == { [line |-> input[m.call], src |-> m.call, from |-> "stale"] :
                   m \in { x \in matched : x.worker = w } }
                 \cup { [line |-> 0, src |-> 0, from |-> "stale"] }
    IN  /\ dpc = "output"
        /\ ~vectorMutex[w]
        /\ parseVector[w] = <<>>
        /\ \/ out' = out
           \/ \E r \in stale : out' = Append(out, r)
        /\ dpc' = "undefined"
        /\ UNCHANGED <<functor, hardware, logs, input, numThreads, pool, running, currentWork,
                       parseVector, wpc, mutex, vectorMutex, smallest, first,
                       i, linesLeft, matched, enqSnap, scanned>>

\* ------------------------------------------------------------ Next
Driver ==
    \/ ReadCall
    \/ MinElementStep
    \/ AddCall
    \/ Process
    \/ ReadOther
    \/ EndOfInput
    \/ DrainDone
    \/ KillThread
    \/ Join
    \/ DrainSelect
    \/ Output
    \/ OutputEmpty

ThreadCheckRunning == \E w \in Workers : CheckRunning(w)
ThreadWait == \E w \in Workers : Wait(w)
ThreadSpuriousWake == \E w \in Workers : SpuriousWake(w)
ThreadReacquire == \E w \in Workers : Reacquire(w)
ThreadScan == \E w \in Workers : Scan(w)

\* The steps of the runs in which wait returns only when notified.
NextNotified ==
    \/ Driver
    \/ ThreadCheckRunning
    \/ ThreadWait
    \/ ThreadReacquire
    \/ ThreadScan

Next ==
    \/ NextNotified
    \/ ThreadSpuriousWake

Spec == Init /\ [][Next]_vars

SpecPlain == InitPlain /\ [][Next]_vars

SpecDispatch == InitDispatch /\ [][Next]_vars

SpecScan == InitScan /\ [][Next]_vars

SpecOrder == InitOrder /\ [][Next]_vars

\* The runs of Spec without spurious wake-ups: what goes wrong in one of
\* them goes wrong whatever the condition variable's implementation.
SpecNotified == Init /\ [][NextNotified]_vars

\* Fair scheduling: the driver and every worker thread keep running while
\* they can take a step.  A return of wait with no notify is never owed.
ThreadStep(w) ==
    /\ w \in Workers
    /\ (CheckRunning(w) \/ Wait(w) \/ Reacquire(w) \/ Scan(w))

Fairness ==
    /\ WF_vars(Driver)
    /\ \A w \in 1..MaxWorkers : WF_vars(ThreadStep(w))

LiveSpec == InitLive /\ [][NextNotified]_vars /\ Fairness

\* ------------------------------------------------------------ the constructor alone
\* ThreadPool's constructor from its first statement, on a machine that
\* reports any count up to MaxHardware.  Each Thread starts its thread as it
\* is constructed, so the threads already made run while the loop goes on.
\* The loop is followed for at most MaxPool turns.
ConstructInit ==
    /\ functor = NoFunctor
    /\ hardware \in 0..MaxHardware
    /\ numThreads = NumThreadsOf(hardware)
    /\ logs = <<>>
    /\ input = <<>>
    /\ out = <<>>
    /\ pool = <<>>
    /\ running = <<>>
    /\ currentWork = <<>>
    /\ parseVector = <<>>
    /\ wpc = <<>>
    /\ mutex = 0
    /\ vectorMutex = <<>>
    /\ dpc = "construct"
    /\ smallest = 1
    /\ first = 1
    /\ i = 0
    /\ linesLeft = 0
    /\ matched = {}
    /\ enqSnap = <<>>
    /\ scanned = {}

\* for (auto i = 0; i < numThreads; ++i) pool.emplace_back(new Thread())
Emplace ==
    /\ dpc = "construct"
    /\ ULess(Len(pool), numThreads)
    /\ Len(pool) < MaxPool
    /\ pool' = Append(pool, Len(pool) + 1)
    /\ running' = Append(running, TRUE)
    /\ currentWork' = Append(currentWork, 0)
    /\ parseVector' = Append(parseVector, <<>>)
    /\ wpc' = Append(wpc, "check")
    /\ vectorMutex' = Append(vectorMutex, FALSE)
    /\ enqSnap' = Append(enqSnap, <<>>)
    /\ UNCHANGED <<functor, hardware, logs, input, out, numThreads, mutex, dpc,
                   smallest, first, i, linesLeft, matched, scanned>>

\* the loop ends: the constructor returns.
Constructed ==
    /\ dpc = "construct"
    /\ ~ULess(Len(pool), numThreads)
    /\ dpc' = "read"
    /\ UNCHANGED <<functor, hardware, logs, input, out, numThreads, pool, running,
                   currentWork, parseVector, wpc, mutex, vectorMutex, smallest,
                   first, i, linesLeft, matched, enqSnap, scanned>>

ConstructorNext ==
    \/ Emplace
    \/ Constructed
    \/ ThreadCheckRunning
    \/ ThreadWait

ConstructorSpec == ConstructInit /\ [][ConstructorNext]_vars

\* ------------------------------------------------------------ Parser alone
\* A Parser is constructed from a line main would enqueue (one that contains
\* "Call"), then called on a string.  Lines are made of pieces.
CallPieces == << StrCallSp, <<"f">>, <<"(">>, StrRetEq \o <<"A">>, StrRetEq, <<"g">> >>
RetPieces == << StrRet \o <<" ">>, <<"f">>, <<"A">> >>

RECURSIVE Concat(_, _)
Concat(pieces, ks) ==
    IF ks = <<>> THEN <<>> ELSE pieces[Head(ks)] \o Concat(pieces, Tail(ks))

Strings(pieces, n) ==
    { Concat(pieces, ks) : ks \in UNION { [1..k -> 1..Len(pieces)] : k \in 0..n } }

ParserInit ==
    /\ InitPool(<<>>, {1})
    /\ \E c \in { x \in Strings(CallPieces, MaxCallPieces) : IsCallText(x) } :
          functor = [NoFunctor EXCEPT !.Call = c]

Invoke ==
    /\ ~functor.done
    /\ \E r \in Strings(RetPieces, MaxRetPieces) :
          functor' = [functor EXCEPT !.Ret = r, !.done = TRUE,
                                     !.result = ParserCall(functor.Call, r)]
    /\ UNCHANGED <<hardware, logs, input, out, numThreads, pool, running, currentWork,
                   parseVector, wpc, mutex, vectorMutex, dpc, smallest, first,
                   i, linesLeft, matched, enqSnap, scanned>>

ParserSpec == ParserInit /\ [][Invoke]_vars

\* ------------------------------------------------------------ vocabulary
\* t occurs in s.
Contains(s, t) ==
    \E p \in 0..(Len(s) - Len(t)) : \A j \in 1..Len(t) : s[p + j] = t[j]

\* The positions (from 1) at which t starts in s.
Starts(s, t) == { p \in 1..(Len(s) - Len(t) + 1) :
                    \A j \in 1..Len(t) : s[p + j - 1] = t[j] }

Least(S) == CHOOSE x \in S : \A y \in S : x <= y

\* A Call line with its delimiters: "Call " occurs, and the first '(' of the
\* line comes after the first "Call ".
WellFormed(s) ==
    /\ Starts(s, StrCallSp) # {}
    /\ Starts(s, <<"(">>) # {}
    /\ Least(Starts(s, StrCallSp)) + 5 <= Least(Starts(s, <<"(">>))

\* The function token: the text between the first "Call " and the first '('.
FunctionToken(s) ==
    SubSeq(s, Least(Starts(s, StrCallSp)) + 5, Least(Starts(s, <<"(">>)) - 1)

HasAddress(s) == Starts(s, StrRetEq) # {}

\* The address token: the text after the first "ret=" to the end of the line.
AddressToken(s) == SubSeq(s, Least(Starts(s, StrRetEq)) + 4, Len(s))

\* The matcher as the specification words it.
SaysMatch(call, ret) ==
    /\ Contains(ret, FunctionToken(call))
    /\ HasAddress(call) => Contains(ret, AddressToken(call))

\* The Calls ThreadPool::enqueue has stored, by position in the input.
Enqueued ==
    { k \in 1..pos : IsCall(input[k])
                     /\ ~(k = pos /\ dpc \in {"min_element", "addCall"}) }

Count(seq, P(_)) == Cardinality({ k \in 1..Len(seq) : P(seq[k]) })

\* The positions the drain has written as unresolved.
Drained == { out[k].src : k \in { j \in 1..Len(out) : out[j].from = "drain" } }

\* Steps of the driver, as seen from outside.
ProcessStep == dpc = "read" /\ Len(input') = Len(input) + 1 /\ IsRet(input'[Len(input')])
AddCallStep == dpc = "addCall" /\ dpc' = "read"
ScanStep(w) == wpc[w] = "scan" /\ wpc'[w] = "check"

\* ------------------------------------------------------------ claims

\* C1: a Call c followed in the input by a Ret r that the matcher accepts for
\* c, and for no other Call, is removed as matched and is never written to
\* the output as unresolved by the drain.  (Stated for the case where r
\* matches no other Call line of the whole input.)
C1_MatchedCallNeverUnresolved ==
    \A c \in Drained :
        ~ \E r \in (c + 1)..pos :
            /\ IsRet(input[r])
            /\ SaysMatch(TextAt(c), TextAt(r))
            /\ \A c2 \in (1..pos) \ {c} :
                   IsCall(input[c2]) => ~SaysMatch(TextAt(c2), TextAt(r))

\* C2: every enqueued Call is at any time in exactly one place: pending in
\* one worker's list (once), removed by one scan, or written once by the
\* drain; so at the end of the run it is either matched or written, never
\* both and never neither.
C2_ExactlyOneFate ==
    \A c \in Enqueued :
        LET nMatched == Cardinality({ m \in matched : m.call = c })
            written(o) == o.from # "read" /\ o.src = c
            held(w) == LET pending(e) == e = c IN Count(parseVector[w], pending)
            RECURSIVE Held(_)
            Held(n) == IF n = 0 THEN 0 ELSE held(n) + Held(n - 1)
        IN  nMatched + Count(out, written) + Held(numThreads) = 1

\* C3: because of one Ret line at most one pending entry is removed in the
\* whole pool.
C3_AtMostOnePerRet ==
    \A r \in 1..pos : Cardinality({ m \in matched : m.ret = r }) <= 1

\* C4: no scan removes an entry once the drain has started, and the drain
\* writes exactly the entries that were pending when it started.
C4_DrainComplete ==
    /\ \A m \in matched : ~m.late
    /\ dpc = "done" => Drained = Enqueued \ { m.call : m \in matched }

\* C5: under fair scheduling the drain, once started, retires every worker
\* and empties the pool (unless the program has died in OutputEmpty).
C5_DrainTerminates ==
    [](DrainStarted => <>(pool = <<>> \/ dpc = "undefined"))

\* C6: for a Call line with its delimiters, Parser::operator() returns true
\* exactly when the Ret string contains the function token and, if the line
\* has a "ret=" marker, the address token.
C6_MatchingCorrect ==
    (functor.done /\ WellFormed(functor.Call)) =>
        (functor.result <=> SaysMatch(functor.Call, functor.Ret))

\* A Parser of a line with a function token and an address token has
\* accepted a string.
C6_Witness ==
    /\ functor.done
    /\ WellFormed(functor.Call)
    /\ HasAddress(functor.Call)
    /\ FunctionToken(functor.Call) # <<>>
    /\ AddressToken(functor.Call) # <<>>
    /\ functor.result

\* The worker ThreadPool::enqueue is to choose given the pending lists pv:
\* the first in pool order among those with the fewest entries.
FirstMinWorker(pv) ==
    pool[Least({ k \in 1..Len(pool) :
                   \A j \in 1..Len(pool) : Len(pv[pool[k]]) <= Len(pv[pool[j]]) })]

\* No live worker holds more than one entry more than another.
Balanced(pv) ==
    \A a, b \in { pool[k] : k \in 1..Len(pool) } : Len(pv[a]) <= Len(pv[b]) + 1

\* C7 (as claimed): enqueue appends the Call to the first worker with the
\* fewest pending entries at the time of the call, and to no other list.
C7_EnqueueFirstMin ==
    [][AddCallStep =>
         parseVector' = [parseVector EXCEPT ![FirstMinWorker(enqSnap)] = Append(@, pos)]]_vars

\* C7 (amended): the same when no scan erased an entry between the call of
\* enqueue and its append.
C7_EnqueueFirstMinUndisturbed ==
    [][(AddCallStep /\ enqSnap = parseVector) =>
         parseVector' = [parseVector EXCEPT ![FirstMinWorker(enqSnap)] = Append(@, pos)]]_vars

\* An enqueue with no erasure before it has chosen the second worker, the
\* first holding one entry already.
C7_Witness ==
    /\ dpc = "read"
    /\ numThreads >= 2
    /\ matched = {}
    /\ size(1) = 1
    /\ size(2) = 1

\* C8 (as claimed): after each enqueue during which no scan erased an entry,
\* no worker's pending count exceeds the minimum by more than 1.
C8_BalancedAfterEnqueue ==
    [][(AddCallStep /\ enqSnap = parseVector) => Balanced(parseVector')]_vars

\* C8 (amended): the same as long as no scan has erased any entry so far.
C8_BalancedWhileNothingErased ==
    [][(AddCallStep /\ enqSnap = parseVector /\ matched = {}) =>
         Balanced(parseVector')]_vars

\* Three Calls enqueued on two workers, a Ret read that no worker acted on.
C8_Witness ==
    /\ dpc = "read"
    /\ matched = {}
    /\ numThreads = 2
    /\ size(1) = 2
    /\ size(2) = 1

\* C10: a line that contains neither "Call" nor "Ret" is written to the
\* output once, as it is read, and reading it changes no pending list, no
\* candidate and no thread's position; the lines so written are at any
\* time exactly such lines of the input, in order.
PassedThrough ==
    LET isRead(o) == o.from = "read"
        RECURSIVE Texts(_)
        Texts(q) == IF q = <<>> THEN <<>> ELSE <<Text(Head(q).line)>> \o Texts(Tail(q))
    IN  Texts(SelectSeq(out, isRead))

NeitherLines ==
    LET neither(l) == ~Contains(Text(l), StrCall) /\ ~Contains(Text(l), StrRet)
        RECURSIVE Texts(_)
        Texts(q) == IF q = <<>> THEN <<>> ELSE <<Text(Head(q))>> \o Texts(Tail(q))
    IN  Texts(SelectSeq(input, neither))

C10_PassThrough ==
    /\ [](PassedThrough = NeitherLines)
    /\ [][(/\ Len(input') = Len(input) + 1
           /\ ~Contains(Text(input'[Len(input')]), StrCall)
           /\ ~Contains(Text(input'[Len(input')]), StrRet)) =>
            (/\ Len(out') = Len(out) + 1
             /\ UNCHANGED <<parseVector, currentWork, wpc, running, pool,
                            mutex, vectorMutex>>)]_vars

\* A line was passed through while a worker was blocked in wait and another
\* held a pending Call.
C10_Witness ==
    /\ \E k \in 1..Len(out) : out[k].from = "read" /\ out[k].src = pos
    /\ \E w \in Workers : wpc[w] = "blocked"
    /\ \E w \in Workers : parseVector[w] # <<>>

\* C9: process() overwrites the candidate only when every worker has scanned
\* the previous one, and no worker scans twice between two process() calls.
C9_EveryRetScannedOnce ==
    [][ /\ ProcessStep =>
             \A w \in Workers : currentWork[w] = 0 \/ w \in scanned
        /\ \A w \in Workers :
             (ScanStep(w) /\ ~DrainStarted /\ currentWork[w] # 0) =>
                 w \notin scanned ]_vars

\* The count the constructor is to create on a machine that reports h.
ExpectedWorkers(h) == IF h - 1 > 1 THEN h - 1 ELSE 1

\* C11: ThreadPool's constructor creates exactly max(h - 1, 1) workers for
\* every h reported, 1 worker when h is 0 or 1: it never holds more, and
\* holds that many when it returns.
C11_WorkerCount ==
    /\ Len(pool) <= ExpectedWorkers(hardware)
    /\ dpc = "read" => Len(pool) = ExpectedWorkers(hardware)

\* The number of lines the drain has written as unresolved.
DrainWrites == Cardinality({ k \in 1..Len(out) : out[k].from = "drain" })

\* C12: the count printed as "Lines left" before the drain is the number of
\* unresolved Call lines the drain then writes, whatever the worker scans
\* still in flight do.
C12_LinesLeftIsWritten ==
    /\ DrainStarted => DrainWrites <= linesLeft
    /\ dpc = "done" => DrainWrites = linesLeft

\* A step in which getline returns a line, and the text of that line.
ReadStep == Len(input') = Len(input) + 1
NewText == Text(input'[Len(input')])

\* What the lists, the candidates and the output hold after right dispatches.
DispatchedRight ==
    /\ \A w \in Workers : \A k \in 1..Len(parseVector[w]) :
          Contains(TextAt(parseVector[w][k]), StrCall)
    /\ \A w \in Workers : currentWork[w] # 0 =>
          (~Contains(TextAt(currentWork[w]), StrCall)
              /\ Contains(TextAt(currentWork[w]), StrRet))
    /\ \A k \in 1..Len(out) : out[k].from = "read" =>
          (~Contains(Text(out[k].line), StrCall)
              /\ ~Contains(Text(out[k].line), StrRet))

\* What a step that reads a line, or ends an enqueue, does and leaves alone.
DispatchStep ==
    /\ (ReadStep /\ Contains(NewText, StrCall)) =>
          (dpc' \in {"min_element", "addCall"}
              /\ UNCHANGED <<parseVector, currentWork, wpc, out>>)
    /\ AddCallStep =>
          (Contains(TextAt(pos), StrCall)
              /\ (\E w \in Workers :
                     parseVector' = [parseVector EXCEPT ![w] = Append(@, pos)])
              /\ UNCHANGED <<currentWork, wpc, out>>)
    /\ (ReadStep /\ ~Contains(NewText, StrCall) /\ Contains(NewText, StrRet)) =>
          ((\A w \in Workers : currentWork'[w] = Len(input'))
              /\ wpc' = NotifyAll(wpc)
              /\ UNCHANGED <<parseVector, out, dpc>>)
    /\ (ReadStep /\ ~Contains(NewText, StrCall) /\ ~Contains(NewText, StrRet)) =>
          (Len(out') = Len(out) + 1
              /\ out'[Len(out')].src = Len(input')
              /\ UNCHANGED <<parseVector, currentWork, wpc, dpc>>)

\* C13: every line read goes to exactly one handler, "Call" tested first: a
\* line containing "Call" (with or without "Ret") starts an enqueue, which
\* appends it to one pending list, and is never broadcast nor passed through;
\* a line containing "Ret" and no "Call" is broadcast to every worker and
\* never enqueued nor passed through; any other line is only passed through.
C13_Dispatch == []DispatchedRight /\ [][DispatchStep]_vars

\* A Call line that contains "Ret" is pending, a Ret line read after it has
\* been broadcast and a line that is neither has been passed through.
C13_Witness ==
    /\ \E w \in Workers : \E k \in 1..Len(parseVector[w]) :
          /\ Contains(TextAt(parseVector[w][k]), StrRet)
          /\ currentWork[w] > parseVector[w][k]
    /\ \E k \in 1..Len(out) : out[k].from = "read"

\* C14: a scan removes a pending Call only against a Ret line that comes
\* after that Call line in the input.
C14_OnlyLaterRet ==
    \A m \in matched : m.call < m.ret

\* The entries of vec (by index) that the matcher accepts for the candidate.
Accepted(vec, ret) == { k \in 1..Len(vec) : ParserCall(CallText(vec[k]), ret) }

\* vec without its k-th entry, the others in their order.
Without(vec, k) == [j \in 1..(Len(vec) - 1) |-> IF j < k THEN vec[j] ELSE vec[j + 1]]

\* C15: a scan removes from the worker's list the first entry, in list
\* order, that the matcher accepts for the worker's candidate, and nothing
\* else; the other entries keep their order; with no accepted entry the list
\* is unchanged; no other worker's list changes.
C15_ScanRemovesFirstMatch ==
    [][\A w \in Workers : ScanStep(w) =>
          LET vec == parseVector[w]
              acc == Accepted(vec, TextAt(currentWork[w]))
          IN  /\ \A v \in Workers \ {w} : parseVector'[v] = parseVector[v]
              /\ acc = {} => parseVector'[w] = vec
              /\ acc # {} => parseVector'[w] = Without(vec, Least(acc))]_vars

\* A scan has erased an entry that was not the first of its list (an earlier
\* entry, which the candidate does not match, is still pending).
C15_Witness ==
    \E m \in matched :
        LET vec == parseVector[m.worker]
        IN  \E k \in 1..Len(vec) :
                vec[k] < m.call /\ ~ParserCall(CallText(vec[k]), TextAt(m.ret))

\* The steps in which the driver reads Thread::size() of a worker w: a turn
\* of std::min_element, ThreadPool::size at end of input, the zero test of
\* the drain.
SizeRead(w) ==
    \/ dpc = "min_element" /\ first' = first + 1 /\ w \in {pool[first], pool[smallest]}
    \/ dpc = "read" /\ dpc' = "drain" /\ \E k \in 1..Len(pool) : pool[k] = w
    \/ dpc = "drain" /\ dpc' \in {"join", "output"} /\ w = pool[i + 1]

\* C16: a worker's pending count is never read while the worker's thread
\* holds its vectorMutex for a scan.
C16_SizeReadUnderLock ==
    [][\A w \in Workers : SizeRead(w) => ~vectorMutex[w]]_vars

\* A Call line the matcher can work on: it has its delimiters and a function
\* token that is not empty.
Matchable(s) == WellFormed(s) /\ FunctionToken(s) # <<>>

\* C17: a Call line that lacks its delimiters, or whose function token is
\* empty, is never removed by a scan, and is written as unresolved by the
\* time the drain is done.
C17_MalformedNeverMatched ==
    /\ \A m \in matched : Matchable(TextAt(m.call))
    /\ dpc = "done" => \A c \in Enqueued : ~Matchable(TextAt(c)) => c \in Drained

\* A worker whose wait has returned (it holds the global mutex again) and
\* whose scan has not ended.
Scanning(w) == wpc[w] = "scan"

\* C18: at most one worker at a time is between the return of its wait and
\* the end of its scan, it holds the global mutex all along, and no
\* worker's currentWork is written while a worker is there.
C18_ScansSerialized ==
    /\ [](/\ Cardinality({ w \in Workers : Scanning(w) }) <= 1
          /\ \A w \in Workers : Scanning(w) => mutex = w)
    /\ [][currentWork' # currentWork => \A w \in Workers : ~Scanning(w)]_vars

\* One worker is scanning, another has been notified and waits for the
\* mutex, and the next line of the log may be a Ret.
C18_Witness ==
    /\ \E w, v \in Workers : Scanning(w) /\ wpc[v] = "woken"
    /\ dpc = "read"
    /\ pos < Len(logs)
    /\ \E l \in logs[pos + 1] : IsRet(l)

\* The step in which operator<<(ostream&, Thread&) reads parseVector[0].
DrainReadStep == dpc = "output" /\ dpc' # "output"

\* C19: whenever the drain reads and erases parseVector[0] of a worker, that
\* worker's pending list is not empty.
C19_DrainReadsNonEmpty ==
    [][DrainReadStep => parseVector[pool[i + 1]] # <<>>]_vars

\* No Ret line has been read.
NoRetRead == \A k \in 1..pos : ~IsRet(input[k])

\* The positions of the Calls enqueued so far, in input order.
EnqueuedSeq ==
    LET enq(k) == k \in Enqueued
    IN  SelectSeq([k \in 1..pos |-> k], enq)

\* The positions the drain has written as unresolved, in the order written.
DrainSeq ==
    LET isDrain(o) == o.from = "drain"
        written == SelectSeq(out, isDrain)
    IN  [k \in 1..Len(written) |-> written[k].src]

\* The share of worker w when the Calls are dealt round-robin to n workers.
RoundRobin(cp, w, n) ==
    [j \in 1..Cardinality({ k \in 1..Len(cp) : (k - 1) % n = w - 1 }) |->
        cp[(j - 1) * n + w]]

\* C20: in a run with no Ret line and well-formed Call lines, the Calls are
\* dealt round-robin to the workers as they are read, and the drain writes
\* them in their input order: what it has written is at any time a prefix of
\* the enqueued Calls in input order, and all of them when it is done.
C20_DrainInInputOrder ==
    NoRetRead =>
        LET es == EnqueuedSeq
            ds == DrainSeq
        IN  /\ \A k \in 1..Len(es) : Matchable(TextAt(es[k]))
            /\ ~DrainStarted =>
                  \A w \in Workers : parseVector[w] = RoundRobin(es, w, numThreads)
            /\ Len(ds) <= Len(es)
            /\ ds = SubSeq(es, 1, Len(ds))
            /\ dpc = "done" => ds = es
            /\ dpc # "undefined"

\* The drain is done in a run without Rets in which two workers held three
\* Calls between them.
C20_Witness ==
    /\ NoRetRead
    /\ dpc = "done"
    /\ numThreads = 2
    /\ Len(DrainSeq) = 3

====
